---- MODULE Spec2Model ----
(***************************************************************************)
(* Trip dispatch of the mototaxi backend: the handlers of                  *)
(* src/src/controllers/trip.controller.js and driver.controller.js, run    *)
(* concurrently against the two Supabase tables "trips" and "drivers".     *)
(* Every await of a handler is one atomic store call and one step here;    *)
(* the code between two awaits runs with the step that precedes it.        *)
(***************************************************************************)
EXTENDS Integers, Sequences, FiniteSets, TLC

\* ------------------------------------------------------------------ bounds
MaxTrips == 2
MaxCalls == 3
MaxFaults == 1
MaxInFlight == 2

\* ------------------------------------------------------- users and roles
\* Registered users; each holds a non-empty subset of ROLES_PERMITIDOS.
Users == {1, 2, 3}
ROLES_PERMITIDOS == {"pasajero", "conductor"}
UserRoles(u) ==
  IF u = 1 THEN {"pasajero"}
  ELSE IF u = 2 THEN {"conductor"}
  ELSE {"pasajero", "conductor"}

\* The users who call the driver endpoints (/driver/register, /driver/status).
DriverUsers == {u \in Users : "conductor" \in UserRoles(u)}

ESTADOS_VIAJE == {"buscando", "asignado", "en_progreso", "finalizado", "cancelado"}
ESTADOS_PERMITIDOS == {"disponible", "ocupado", "offline"}

Procs == 1..MaxInFlight
TripIds == 1..MaxTrips
Null == 0

VARIABLES
  trips,      \* table trips: sequence of rows, a row's id is its index
  drivers,    \* table drivers: per user_id the sequence of estado of its rows
  calls,      \* the handler invocations in flight, one slot per concurrent request
  resp,       \* the response sent by the last step, NoResp if it sent none
  okAccepts,  \* per trip, the callers whose acceptTrip answered 200 (history)
  ncalls,     \* requests received so far
  faults      \* store calls that failed so far

vars == <<trips, drivers, calls, resp, okAccepts, ncalls, faults>>

\* ---------------------------------------------------------------- records
NoViaje == [id |-> 0, estado |-> "none", pasajero_id |-> 0, conductor_id |-> 0]

Idle ==
  [op |-> "idle", user |-> 0, trip |-> 0, arg |-> "none", pc |-> "idle",
   viaje |-> NoViaje, nw |-> 0]

NoResp ==
  [op |-> "none", user |-> 0, trip |-> 0, status |-> 0, viaje |-> NoViaje, nw |-> 0]

NewCall(op, u, t, a) ==
  [Idle EXCEPT !.op = op, !.user = u, !.trip = t, !.arg = a]

\* ----------------------------------------------------------- store client
\* The columns of a trips row that the handlers look at.
Columns(row) ==
  [id |-> row.id, estado |-> row.estado,
   pasajero_id |-> row.pasajero_id, conductor_id |-> row.conductor_id]

\* .select("id, estado, ..."): the row with only the columns asked for.
Select(row, cols) ==
  [id |-> row.id, estado |-> row.estado,
   pasajero_id |-> IF "pasajero_id" \in cols THEN row.pasajero_id ELSE Null,
   conductor_id |-> IF "conductor_id" \in cols THEN row.conductor_id ELSE Null]

\* .single(): data and no error for exactly one row, else error PGRST116
\* (the code the handlers test for after a single-row query).
Single(rows, null) ==
  IF Len(rows) = 1
  THEN [data |-> rows[1], error |-> "none"]
  ELSE [data |-> null, error |-> "PGRST116"]

\* .maybeSingle(): no row is data null without error; several rows are an error.
MaybeSingle(rows, null) ==
  IF Len(rows) = 1 THEN [data |-> rows[1], error |-> "none"]
  ELSE IF Len(rows) = 0 THEN [data |-> null, error |-> "none"]
  ELSE [data |-> null, error |-> "PGRST116"]

\* .from("trips").select(..).eq("id", tripId): the rows with that id.
TripById(tripId) == SelectSeq(trips, LAMBDA r : r.id = tripId)

\* .from("drivers").select(..).eq("user_id", userId): that user's rows.
DriverRows(userId) == drivers[userId]

\* .from("drivers").update({estado}).eq("user_id", userId)
SetDriverEstado(userId, estado) ==
  [drivers EXCEPT ![userId] = [i \in 1..Len(drivers[userId]) |-> estado]]

\* .from("drivers").insert({user_id, estado})
InsertDriver(userId, estado) ==
  [drivers EXCEPT ![userId] = Append(drivers[userId], estado)]

\* .from("trips").update(patch).<filters>: every row the filters match (match[i])
\* is replaced by its patched row (patched[i]).
UpdateTrips(match, patched) ==
  [i \in 1..Len(trips) |-> IF match[i] THEN patched[i] ELSE trips[i]]

\* ...update(patch).<filters>.select(): the rows the update returns.
Updated(match, patched) ==
  LET hit == SelectSeq([i \in 1..Len(trips) |-> i], LAMBDA i : match[i]) IN
  [k \in 1..Len(hit) |-> Columns(patched[hit[k]])]

\* A single-row read of a trip: 500 on a store failure, 404 on PGRST116 or no
\* data, else 0 (go on) with the row read.
ReadTrip(tripId, cols, err) ==
  LET r == Single(TripById(tripId), NoViaje) IN
  IF err THEN [status |-> 500, viaje |-> NoViaje]
  ELSE IF r.error = "PGRST116" THEN [status |-> 404, viaje |-> NoViaje]
  ELSE IF r.data = NoViaje THEN [status |-> 404, viaje |-> NoViaje]
  ELSE [status |-> 0, viaje |-> Select(r.data, cols)]

\* ------------------------------------------------------------ middlewares
\* roleMiddleware(rolesPermitidos): some role of the user is permitted.
roleMiddleware(rolesPermitidos, userRoles) ==
  \E rol \in rolesPermitidos : rol \in userRoles

\* ------------------------------------------------------------- scheduling
\* A request is taken by the lowest free slot.
FreeSlot(p) ==
  /\ calls[p].pc = "idle"
  /\ \A q \in Procs : q < p => calls[q].pc # "idle"
  /\ ncalls < MaxCalls
  /\ ncalls' = ncalls + 1

\* A store call may fail (timeout, connection error); a failed call has no effect.
StoreCall(err) ==
  /\ err => faults < MaxFaults
  /\ faults' = IF err THEN faults + 1 ELSE faults

Respond(p, c, status) ==
  /\ calls' = [calls EXCEPT ![p] = Idle]
  /\ resp' = [op |-> c.op, user |-> c.user, trip |-> c.trip, status |-> status,
              viaje |-> c.viaje, nw |-> c.nw]

Continue(p, c, pc) ==
  /\ calls' = [calls EXCEPT ![p] = [c EXCEPT !.pc = pc]]
  /\ resp' = NoResp

\* The tables outlive the server: it starts on what earlier requests left. The
\* starting tables are the empty ones, or those of a run in which user 3
\* registered as a driver and then, one after the other and without failures, at
\* most one trip was requested by passenger pas, accepted by 3, started and
\* finished.
InitEstados == {"buscando", "asignado", "en_progreso", "finalizado"}

InitTrip(pas, estado) ==
  [id |-> 1, pasajero_id |-> pas,
   conductor_id |-> IF estado = "buscando" THEN Null ELSE 3,
   estado |-> estado,
   accepted_at |-> IF estado = "buscando" THEN 0 ELSE 1,
   started_at |-> IF estado \in {"en_progreso", "finalizado"} THEN 1 ELSE 0,
   finished_at |-> IF estado = "finalizado" THEN 1 ELSE 0,
   cancelled_at |-> 0, cancelled_by |-> "none"]

InitDrivers(estado) ==
  [u \in Users |->
     IF u # 3 THEN <<>>
     ELSE IF estado \in {"asignado", "en_progreso"} THEN <<"ocupado">>
     ELSE <<"disponible">>]

Init ==
  /\ \/ trips = <<>> /\ drivers = [u \in Users |-> <<>>]
     \/ trips = <<>> /\ drivers = InitDrivers("none")
     \/ \E pas \in {1, 3}, estado \in InitEstados :
          /\ trips = <<InitTrip(pas, estado)>>
          /\ drivers = InitDrivers(estado)
  /\ calls = [p \in Procs |-> Idle]
  /\ resp = NoResp
  /\ okAccepts = [t \in TripIds |->
                    IF t <= Len(trips) /\ trips[t].conductor_id # Null
                    THEN <<trips[t].conductor_id>> ELSE <<>>]
  /\ ncalls = 0
  /\ faults = 0

\* ------------------------------------------------------------ requestTrip
estadosActivos == {"buscando", "asignado", "en_progreso"}

\* .eq("pasajero_id", pasajeroId).in("estado", estadosActivos)
viajesActivos(pasajeroId) ==
  SelectSeq(trips, LAMBDA r : r.pasajero_id = pasajeroId /\ r.estado \in estadosActivos)

\* conductoresDisponibles without .eq("estado", "disponible").
conductoresDisponiblesNoFilter ==
  {u \in Users : Len(drivers[u]) > 0}

\* .from("drivers").select("user_id").eq("estado", "disponible"), as a set of user_id
conductoresDisponibles ==
  {u \in Users : \E i \in 1..Len(drivers[u]) : drivers[u][i] = "disponible"}

\* NuevoViaje that reserves the trip at once: inserted as "asignado".
NuevoViajeAsignado(pasajeroId) ==
  [id |-> Len(trips) + 1, pasajero_id |-> pasajeroId, conductor_id |-> Null,
   estado |-> "asignado", accepted_at |-> 0, started_at |-> 0,
   finished_at |-> 0, cancelled_at |-> 0, cancelled_by |-> "none"]

\* .insert({pasajero_id, estado: "buscando"})
NuevoViaje(pasajeroId) ==
  [id |-> Len(trips) + 1, pasajero_id |-> pasajeroId, conductor_id |-> Null,
   estado |-> "buscando", accepted_at |-> 0, started_at |-> 0,
   finished_at |-> 0, cancelled_at |-> 0, cancelled_by |-> "none"]

requestTrip(p, u, err) ==
  LET c == NewCall("requestTrip", u, 0, "none") IN
  /\ FreeSlot(p)
  /\ \/ Len(trips) + Cardinality({q \in Procs : calls[q].op = "requestTrip"}) < MaxTrips
     \/ Len(viajesActivos(u)) > 0
  /\ UNCHANGED <<trips, drivers, okAccepts>>
  /\ IF ~roleMiddleware({"pasajero"}, UserRoles(u))
     THEN ~err /\ UNCHANGED faults /\ Respond(p, c, 403)
     ELSE /\ StoreCall(err)
          /\ IF err THEN Respond(p, c, 500)
             ELSE IF Len(viajesActivos(u)) > 0 THEN Respond(p, c, 409)
             ELSE Continue(p, c, "req_drivers")

requestTripDrivers(p, err) ==
  LET c == calls[p] IN
  /\ c.pc = "req_drivers"
  /\ StoreCall(err)
  /\ UNCHANGED <<trips, drivers, okAccepts, ncalls>>
  /\ IF err THEN Respond(p, c, 500)
     ELSE IF conductoresDisponibles = {} THEN Respond(p, c, 503)
     ELSE Continue(p, c, "req_insert")

\* requestTripInsert that looks for an available driver only after the insert.
requestTripInsertThenCheck(p, err) ==
  LET c == calls[p]
      nuevoViaje == NuevoViaje(c.user)
      c2 == [c EXCEPT !.trip = nuevoViaje.id, !.nw = c.nw + 1] IN
  /\ c.pc = "req_insert"
  /\ StoreCall(err)
  /\ UNCHANGED <<drivers, okAccepts, ncalls>>
  /\ IF err THEN /\ Respond(p, c, 500)
                 /\ UNCHANGED trips
     ELSE /\ trips' = Append(trips, nuevoViaje)
          /\ IF conductoresDisponibles = {} THEN Respond(p, c2, 503)
             ELSE Respond(p, c2, 201)

requestTripInsert(p, err) ==
  LET c == calls[p]
      nuevoViaje == NuevoViaje(c.user) IN
  /\ c.pc = "req_insert"
  /\ StoreCall(err)
  /\ UNCHANGED <<drivers, okAccepts, ncalls>>
  /\ IF err THEN /\ Respond(p, c, 500)
                 /\ UNCHANGED trips
     ELSE /\ trips' = Append(trips, nuevoViaje)
          /\ Respond(p, [c EXCEPT !.trip = nuevoViaje.id, !.nw = c.nw + 1], 201)

\* ------------------------------------------------------------- acceptTrip
estadosActivosConductor == {"asignado", "en_progreso"}

\* .eq("conductor_id", conductorId).in("estado", estadosActivosConductor)
viajesActivosConductor(conductorId) ==
  SelectSeq(trips, LAMBDA r : r.conductor_id = conductorId
                              /\ r.estado \in estadosActivosConductor)

\* acceptDriverGuard without the test of estado.
acceptDriverGuardAnyEstado(conductorId, err) ==
  LET r == Single(DriverRows(conductorId), "none") IN
  IF err \/ r.error # "none" \/ r.data = "none" THEN 404
  ELSE 0

\* acceptDriverGuard that looks at estado before it looks for the row.
acceptDriverGuardEstadoFirst(conductorId, err) ==
  LET r == Single(DriverRows(conductorId), "none") IN
  IF r.data # "disponible" THEN 400
  ELSE IF err \/ r.error # "none" THEN 404
  ELSE 0

\* The driver read: 404 unless exactly one row is read without error, 400 unless
\* it is "disponible", else 0 (go on).
acceptDriverGuard(conductorId, err) ==
  LET r == Single(DriverRows(conductorId), "none") IN
  IF err \/ r.error # "none" \/ r.data = "none" THEN 404
  ELSE IF r.data # "disponible" THEN 400
  ELSE 0

\* acceptFilter without .eq("estado", "buscando"): an unconditional update.
acceptFilterAnyEstado(r, tripId) == r.id = tripId

\* acceptPatch that leaves conductor_id out of the update.
acceptPatchNoConductor(r, conductorId) ==
  [r EXCEPT !.estado = "asignado", !.accepted_at = @ + 1]

\* .update({conductor_id, estado: "asignado", accepted_at}).eq("id").eq("estado","buscando")
acceptFilter(r, tripId) == r.id = tripId /\ r.estado = "buscando"

acceptPatch(r, conductorId) ==
  [r EXCEPT !.conductor_id = conductorId, !.estado = "asignado",
            !.accepted_at = @ + 1]

acceptTrip(p, u, t, err) ==
  LET c == NewCall("acceptTrip", u, t, "none")
      g == acceptDriverGuard(u, err) IN
  /\ FreeSlot(p)
  /\ UNCHANGED <<trips, drivers, okAccepts>>
  /\ IF ~roleMiddleware({"conductor"}, UserRoles(u))
     THEN ~err /\ UNCHANGED faults /\ Respond(p, c, 403)
     ELSE /\ StoreCall(err)
          /\ IF g # 0 THEN Respond(p, c, g)
             ELSE Continue(p, c, "acc_active")

acceptTripActive(p, err) ==
  LET c == calls[p] IN
  /\ c.pc = "acc_active"
  /\ StoreCall(err)
  /\ UNCHANGED <<trips, drivers, okAccepts, ncalls>>
  /\ IF err THEN Respond(p, c, 500)
     ELSE IF Len(viajesActivosConductor(c.user)) > 0 THEN Respond(p, c, 409)
     ELSE Continue(p, c, "acc_trip")

acceptTripRead(p, err) ==
  LET c == calls[p]
      r == ReadTrip(c.trip, {"id", "estado"}, err)
      c2 == [c EXCEPT !.viaje = r.viaje] IN
  /\ c.pc = "acc_trip"
  /\ StoreCall(err)
  /\ UNCHANGED <<trips, drivers, okAccepts, ncalls>>
  /\ IF r.status # 0 THEN Respond(p, c2, r.status)
     ELSE IF r.viaje.estado # "buscando" THEN Respond(p, c2, 400)
     ELSE Continue(p, c2, "acc_update")

acceptTripUpdate(p, err) ==
  LET c == calls[p]
      F == [i \in 1..Len(trips) |-> acceptFilter(trips[i], c.trip)]
      P == [i \in 1..Len(trips) |-> acceptPatch(trips[i], c.user)]
      viajeActualizado == Single(Updated(F, P), NoViaje) IN
  /\ c.pc = "acc_update"
  /\ StoreCall(err)
  /\ UNCHANGED <<drivers, okAccepts, ncalls>>
  /\ IF err THEN /\ UNCHANGED trips
                 /\ Respond(p, c, 500)
     ELSE /\ trips' = UpdateTrips(F, P)
          /\ IF viajeActualizado.error # "none" THEN Respond(p, c, 500)
             ELSE IF viajeActualizado.data = NoViaje THEN Respond(p, c, 400)
             ELSE Continue(p, [c EXCEPT !.nw = c.nw + 1], "acc_driver")

\* acceptTripDriver that only logs a failed driver write, as cancelTrip does.
acceptTripDriverSwallow(p, err) ==
  LET c == calls[p] IN
  /\ c.pc = "acc_driver"
  /\ StoreCall(err)
  /\ UNCHANGED <<trips, ncalls>>
  /\ IF err THEN /\ UNCHANGED <<drivers, okAccepts>>
                 /\ Respond(p, c, 200)
     ELSE /\ drivers' = SetDriverEstado(c.user, "ocupado")
          /\ okAccepts' = [okAccepts EXCEPT ![c.trip] = Append(@, c.user)]
          /\ Respond(p, [c EXCEPT !.nw = c.nw + 1], 200)

acceptTripDriver(p, err) ==
  LET c == calls[p] IN
  /\ c.pc = "acc_driver"
  /\ StoreCall(err)
  /\ UNCHANGED <<trips, ncalls>>
  /\ IF err THEN /\ UNCHANGED <<drivers, okAccepts>>
                 /\ Respond(p, c, 500)
     ELSE /\ drivers' = SetDriverEstado(c.user, "ocupado")
          /\ okAccepts' = [okAccepts EXCEPT ![c.trip] = Append(@, c.user)]
          /\ Respond(p, [c EXCEPT !.nw = c.nw + 1], 200)

\* -------------------------------------------------------------- startTrip
\* startGuard with its two checks in the other order.
startGuardEstadoFirst(viajeActual, conductorId) ==
  IF viajeActual.estado # "asignado" THEN 400
  ELSE IF viajeActual.conductor_id # conductorId THEN 403
  ELSE 0

\* After the trip is read: 403 unless the caller is its conductor_id, 400 unless
\* it is "asignado", else 0 (go on).
startGuard(viajeActual, conductorId) ==
  IF viajeActual.conductor_id # conductorId THEN 403
  ELSE IF viajeActual.estado # "asignado" THEN 400
  ELSE 0

\* .update({estado: "en_progreso", started_at}).eq("id", tripId)
startFilter(r, tripId) == r.id = tripId

startPatch(r) == [r EXCEPT !.estado = "en_progreso", !.started_at = @ + 1]

startTrip(p, u, t, err) ==
  LET c == NewCall("startTrip", u, t, "none")
      r == ReadTrip(t, {"id", "estado", "conductor_id"}, err)
      c2 == [c EXCEPT !.viaje = r.viaje] IN
  /\ FreeSlot(p)
  /\ UNCHANGED <<trips, drivers, okAccepts>>
  /\ IF ~roleMiddleware({"conductor"}, UserRoles(u))
     THEN ~err /\ UNCHANGED faults /\ Respond(p, c, 403)
     ELSE /\ StoreCall(err)
          /\ IF r.status # 0 THEN Respond(p, c2, r.status)
             ELSE IF startGuard(r.viaje, u) # 0
                  THEN Respond(p, c2, startGuard(r.viaje, u))
             ELSE Continue(p, c2, "start_update")

startTripUpdate(p, err) ==
  LET c == calls[p]
      F == [i \in 1..Len(trips) |-> startFilter(trips[i], c.trip)]
      P == [i \in 1..Len(trips) |-> startPatch(trips[i])]
      viajeActualizado == Single(Updated(F, P), NoViaje) IN
  /\ c.pc = "start_update"
  /\ StoreCall(err)
  /\ UNCHANGED <<drivers, okAccepts, ncalls>>
  /\ IF err THEN /\ UNCHANGED trips
                 /\ Respond(p, c, 500)
     ELSE /\ trips' = UpdateTrips(F, P)
          /\ IF viajeActualizado.error # "none" THEN Respond(p, c, 500)
             ELSE IF viajeActualizado.data = NoViaje THEN Respond(p, c, 404)
             ELSE Respond(p, [c EXCEPT !.nw = c.nw + 1], 200)

\* ------------------------------------------------------------ getTripById
\* GET /:id, open to every authenticated user; the handler does not look at the
\* caller. Any error of the read is answered 500, a null row 404.
getTripById(p, t, err) ==
  LET c == NewCall("getTripById", 0, t, "none")
      r == Single(TripById(t), NoViaje) IN
  /\ FreeSlot(p)
  /\ StoreCall(err)
  /\ UNCHANGED <<trips, drivers, okAccepts>>
  /\ IF err \/ r.error # "none" THEN Respond(p, c, 500)
     ELSE IF r.data = NoViaje THEN Respond(p, c, 404)
     ELSE Respond(p, c, 200)

\* ------------------------------------------------------------- finishTrip
finishGuard(viajeActual, conductorId) ==
  IF viajeActual.conductor_id # conductorId THEN 403
  ELSE IF viajeActual.estado # "en_progreso" THEN 400
  ELSE 0

\* finishFilter without .eq("estado", "en_progreso"): an unconditional update.
finishFilterAnyEstado(r, tripId) == r.id = tripId

\* .update({estado: "finalizado", finished_at}).eq("id").eq("estado","en_progreso")
finishFilter(r, tripId) == r.id = tripId /\ r.estado = "en_progreso"

finishPatch(r) == [r EXCEPT !.estado = "finalizado", !.finished_at = @ + 1]

finishTrip(p, u, t, err) ==
  LET c == NewCall("finishTrip", u, t, "none")
      r == ReadTrip(t, {"id", "estado", "conductor_id"}, err)
      c2 == [c EXCEPT !.viaje = r.viaje] IN
  /\ FreeSlot(p)
  /\ UNCHANGED <<trips, drivers, okAccepts>>
  /\ IF ~roleMiddleware({"conductor"}, UserRoles(u))
     THEN ~err /\ UNCHANGED faults /\ Respond(p, c, 403)
     ELSE /\ StoreCall(err)
          /\ IF r.status # 0 THEN Respond(p, c2, r.status)
             ELSE IF finishGuard(r.viaje, u) # 0
                  THEN Respond(p, c2, finishGuard(r.viaje, u))
             ELSE Continue(p, c2, "fin_update")

\* finishTripUpdate that goes on to the driver write whatever the update did.
finishTripUpdateAlwaysFree(p, err) ==
  LET c == calls[p]
      F == [i \in 1..Len(trips) |-> finishFilter(trips[i], c.trip)]
      P == [i \in 1..Len(trips) |-> finishPatch(trips[i])] IN
  /\ c.pc = "fin_update"
  /\ StoreCall(err)
  /\ UNCHANGED <<drivers, okAccepts, ncalls>>
  /\ trips' = IF err THEN trips ELSE UpdateTrips(F, P)
  /\ Continue(p, c, "fin_driver")

finishTripUpdate(p, err) ==
  LET c == calls[p]
      F == [i \in 1..Len(trips) |-> finishFilter(trips[i], c.trip)]
      P == [i \in 1..Len(trips) |-> finishPatch(trips[i])]
      viajeActualizado == Single(Updated(F, P), NoViaje) IN
  /\ c.pc = "fin_update"
  /\ StoreCall(err)
  /\ UNCHANGED <<drivers, okAccepts, ncalls>>
  /\ IF err THEN /\ UNCHANGED trips
                 /\ Respond(p, c, 500)
     ELSE /\ trips' = UpdateTrips(F, P)
          /\ IF viajeActualizado.error # "none" THEN Respond(p, c, 500)
             ELSE IF viajeActualizado.data = NoViaje THEN Respond(p, c, 404)
             ELSE Continue(p, [c EXCEPT !.nw = c.nw + 1], "fin_driver")

finishTripDriver(p, err) ==
  LET c == calls[p] IN
  /\ c.pc = "fin_driver"
  /\ StoreCall(err)
  /\ UNCHANGED <<trips, okAccepts, ncalls>>
  /\ IF err THEN /\ UNCHANGED drivers
                 /\ Respond(p, c, 500)
     ELSE /\ drivers' = SetDriverEstado(c.user, "disponible")
          /\ Respond(p, [c EXCEPT !.nw = c.nw + 1], 200)

\* ------------------------------------------------------------- cancelTrip
esPasajero(viajeActual, userId, roles) ==
  "pasajero" \in roles /\ viajeActual.pasajero_id = userId

esConductor(viajeActual, userId, roles) ==
  "conductor" \in roles /\ viajeActual.conductor_id = userId

\* cancelGuard without the "en_progreso: only the driver" check.
cancelGuardNoProgressCheck(viajeActual, userId, roles) ==
  LET esP == esPasajero(viajeActual, userId, roles)
      esC == esConductor(viajeActual, userId, roles) IN
  IF viajeActual.estado = "finalizado" THEN 400
  ELSE IF viajeActual.estado = "cancelado" THEN 400
  ELSE IF ~esP /\ ~esC THEN 403
  ELSE IF esP /\ viajeActual.estado # "buscando" /\ viajeActual.estado # "asignado"
       THEN 400
  ELSE IF esC /\ viajeActual.estado = "asignado" THEN 0
  ELSE IF esC /\ viajeActual.estado # "en_progreso" THEN 400
  ELSE 0

\* cancelGuard that looks at who calls before it looks at a terminal estado.
cancelGuardIdentityFirst(viajeActual, userId, roles) ==
  LET esP == esPasajero(viajeActual, userId, roles)
      esC == esConductor(viajeActual, userId, roles) IN
  IF ~esP /\ ~esC THEN 403
  ELSE IF viajeActual.estado = "finalizado" THEN 400
  ELSE IF viajeActual.estado = "cancelado" THEN 400
  ELSE IF viajeActual.estado = "en_progreso" /\ ~esC THEN 403
  ELSE IF esP /\ viajeActual.estado # "buscando" /\ viajeActual.estado # "asignado"
       THEN 400
  ELSE IF esC /\ viajeActual.estado = "asignado" THEN 0
  ELSE IF esC /\ viajeActual.estado # "en_progreso" THEN 400
  ELSE 0

\* The checks between the read and the update, in the code's order; 0 is go on.
cancelGuard(viajeActual, userId, roles) ==
  LET esP == esPasajero(viajeActual, userId, roles)
      esC == esConductor(viajeActual, userId, roles) IN
  IF viajeActual.estado = "finalizado" THEN 400
  ELSE IF viajeActual.estado = "cancelado" THEN 400
  ELSE IF ~esP /\ ~esC THEN 403
  ELSE IF viajeActual.estado = "en_progreso" /\ ~esC THEN 403
  ELSE IF esP /\ viajeActual.estado # "buscando" /\ viajeActual.estado # "asignado"
       THEN 400
  ELSE IF esC /\ viajeActual.estado = "asignado" THEN 0
  ELSE IF esC /\ viajeActual.estado # "en_progreso" THEN 400
  ELSE 0

cancelledBy(viajeActual, userId, roles) ==
  IF esPasajero(viajeActual, userId, roles) THEN "pasajero" ELSE "conductor"

\* .update({estado: "cancelado", cancelled_at, cancelled_by}).eq("id", tripId)
cancelFilter(r, tripId) == r.id = tripId

\* cancelPatch that also clears conductor_id.
cancelPatchClearsConductor(r, by) ==
  [r EXCEPT !.estado = "cancelado", !.cancelled_at = @ + 1, !.cancelled_by = by,
            !.conductor_id = Null]

cancelPatch(r, by) ==
  [r EXCEPT !.estado = "cancelado", !.cancelled_at = @ + 1, !.cancelled_by = by]

cancelTrip(p, u, t, err) ==
  LET c == NewCall("cancelTrip", u, t, "none")
      r == ReadTrip(t, {"id", "estado", "pasajero_id", "conductor_id"}, err)
      c2 == [c EXCEPT !.viaje = r.viaje] IN
  /\ FreeSlot(p)
  /\ UNCHANGED <<trips, drivers, okAccepts>>
  /\ IF ~roleMiddleware({"pasajero", "conductor"}, UserRoles(u))
     THEN ~err /\ UNCHANGED faults /\ Respond(p, c, 403)
     ELSE /\ StoreCall(err)
          /\ IF r.status # 0 THEN Respond(p, c2, r.status)
             ELSE IF cancelGuard(r.viaje, u, UserRoles(u)) # 0
                  THEN Respond(p, c2, cancelGuard(r.viaje, u, UserRoles(u)))
             ELSE Continue(p, c2, "can_update")

cancelTripUpdate(p, err) ==
  LET c == calls[p]
      F == [i \in 1..Len(trips) |-> cancelFilter(trips[i], c.trip)]
      P == [i \in 1..Len(trips) |-> cancelPatch(trips[i], cancelledBy(c.viaje, c.user, UserRoles(c.user)))]
      viajeActualizado == Single(Updated(F, P), NoViaje)
      c2 == [c EXCEPT !.nw = c.nw + 1] IN
  /\ c.pc = "can_update"
  /\ StoreCall(err)
  /\ UNCHANGED <<drivers, okAccepts, ncalls>>
  /\ IF err THEN /\ UNCHANGED trips
                 /\ Respond(p, c, 500)
     ELSE /\ trips' = UpdateTrips(F, P)
          /\ IF viajeActualizado.error # "none" THEN Respond(p, c, 500)
             ELSE IF viajeActualizado.data = NoViaje THEN Respond(p, c, 404)
             ELSE IF c.viaje.conductor_id # Null THEN Continue(p, c2, "can_driver")
             ELSE Respond(p, c2, 200)

cancelTripDriver(p, err) ==
  LET c == calls[p] IN
  /\ c.pc = "can_driver"
  /\ StoreCall(err)
  /\ UNCHANGED <<trips, okAccepts, ncalls>>
  /\ IF err THEN /\ UNCHANGED drivers
                 /\ Respond(p, c, 200)
     ELSE /\ drivers' = SetDriverEstado(c.viaje.conductor_id, "disponible")
          /\ Respond(p, [c EXCEPT !.nw = c.nw + 1], 200)

\* --------------------------------------------------------- registerDriver
registerDriver(p, u, err) ==
  LET c == NewCall("registerDriver", u, 0, "none")
      existing == MaybeSingle(DriverRows(u), "none") IN
  /\ FreeSlot(p)
  /\ StoreCall(err)
  /\ UNCHANGED <<trips, drivers, okAccepts>>
  /\ IF err \/ existing.error # "none" THEN Respond(p, c, 500)
     ELSE IF existing.data # "none" THEN Respond(p, c, 409)
     ELSE Continue(p, c, "reg_insert")

\* registerDriverInsert as an upsert: rows the user already has are reset.
registerDriverInsertReset(p, err) ==
  LET c == calls[p] IN
  /\ c.pc = "reg_insert"
  /\ StoreCall(err)
  /\ UNCHANGED <<trips, okAccepts, ncalls>>
  /\ IF err THEN /\ UNCHANGED drivers
                 /\ Respond(p, c, 500)
     ELSE /\ drivers' = IF Len(drivers[c.user]) = 0
                        THEN InsertDriver(c.user, "disponible")
                        ELSE SetDriverEstado(c.user, "disponible")
          /\ Respond(p, [c EXCEPT !.nw = c.nw + 1], 201)

registerDriverInsert(p, err) ==
  LET c == calls[p] IN
  /\ c.pc = "reg_insert"
  /\ StoreCall(err)
  /\ UNCHANGED <<trips, okAccepts, ncalls>>
  /\ IF err THEN /\ UNCHANGED drivers
                 /\ Respond(p, c, 500)
     ELSE /\ drivers' = InsertDriver(c.user, "disponible")
          /\ Respond(p, [c EXCEPT !.nw = c.nw + 1], 201)

\* ----------------------------------------------------------- updateStatus
\* const updatedRows = ...: the number of rows the update returned.
updatedRows(userId) == Len(DriverRows(userId))

updateStatus(p, u, estado, err) ==
  LET c == NewCall("updateStatus", u, 0, estado) IN
  /\ FreeSlot(p)
  /\ estado \in ESTADOS_PERMITIDOS
  /\ StoreCall(err)
  /\ UNCHANGED <<trips, okAccepts>>
  /\ IF err THEN /\ UNCHANGED drivers
                 /\ Respond(p, c, 500)
     ELSE /\ drivers' = SetDriverEstado(u, estado)
          /\ IF updatedRows(u) = 0 THEN Continue(p, c, "upd_insert")
             ELSE Respond(p, [c EXCEPT !.nw = c.nw + 1], 200)

updateStatusInsert(p, err) ==
  LET c == calls[p] IN
  /\ c.pc = "upd_insert"
  /\ StoreCall(err)
  /\ UNCHANGED <<trips, okAccepts, ncalls>>
  /\ IF err THEN /\ UNCHANGED drivers
                 /\ Respond(p, c, 500)
     ELSE /\ drivers' = InsertDriver(c.user, c.arg)
          /\ Respond(p, [c EXCEPT !.nw = c.nw + 1], 200)

\* ------------------------------------------------------------------ system
Next ==
  \/ \E p \in Procs, u \in Users, err \in BOOLEAN : requestTrip(p, u, err)
  \/ \E p \in Procs, err \in BOOLEAN : requestTripDrivers(p, err)
  \/ \E p \in Procs, err \in BOOLEAN : requestTripInsert(p, err)
  \/ \E p \in Procs, u \in Users, t \in TripIds, err \in BOOLEAN : acceptTrip(p, u, t, err)
  \/ \E p \in Procs, err \in BOOLEAN : acceptTripActive(p, err)
  \/ \E p \in Procs, err \in BOOLEAN : acceptTripRead(p, err)
  \/ \E p \in Procs, err \in BOOLEAN : acceptTripUpdate(p, err)
  \/ \E p \in Procs, err \in BOOLEAN : acceptTripDriver(p, err)
  \/ \E p \in Procs, u \in Users, t \in TripIds, err \in BOOLEAN : startTrip(p, u, t, err)
  \/ \E p \in Procs, err \in BOOLEAN : startTripUpdate(p, err)
  \/ \E p \in Procs, t \in TripIds, err \in BOOLEAN : getTripById(p, t, err)
  \/ \E p \in Procs, u \in Users, t \in TripIds, err \in BOOLEAN : finishTrip(p, u, t, err)
  \/ \E p \in Procs, err \in BOOLEAN : finishTripUpdate(p, err)
  \/ \E p \in Procs, err \in BOOLEAN : finishTripDriver(p, err)
  \/ \E p \in Procs, u \in Users, t \in TripIds, err \in BOOLEAN : cancelTrip(p, u, t, err)
  \/ \E p \in Procs, err \in BOOLEAN : cancelTripUpdate(p, err)
  \/ \E p \in Procs, err \in BOOLEAN : cancelTripDriver(p, err)
  \/ \E p \in Procs, u \in DriverUsers, err \in BOOLEAN : registerDriver(p, u, err)
  \/ \E p \in Procs, err \in BOOLEAN : registerDriverInsert(p, err)
  \/ \E p \in Procs, u \in DriverUsers, e \in ESTADOS_PERMITIDOS, err \in BOOLEAN :
       updateStatus(p, u, e, err)
  \/ \E p \in Procs, err \in BOOLEAN : updateStatusInsert(p, err)

Spec == Init /\ [][Next]_vars

\* The system when no driver calls /driver/status.
NextNoStatus ==
  \/ \E p \in Procs, u \in Users, err \in BOOLEAN : requestTrip(p, u, err)
  \/ \E p \in Procs, err \in BOOLEAN : requestTripDrivers(p, err)
  \/ \E p \in Procs, err \in BOOLEAN : requestTripInsert(p, err)
  \/ \E p \in Procs, u \in Users, t \in TripIds, err \in BOOLEAN : acceptTrip(p, u, t, err)
  \/ \E p \in Procs, err \in BOOLEAN : acceptTripActive(p, err)
  \/ \E p \in Procs, err \in BOOLEAN : acceptTripRead(p, err)
  \/ \E p \in Procs, err \in BOOLEAN : acceptTripUpdate(p, err)
  \/ \E p \in Procs, err \in BOOLEAN : acceptTripDriver(p, err)
  \/ \E p \in Procs, u \in Users, t \in TripIds, err \in BOOLEAN : startTrip(p, u, t, err)
  \/ \E p \in Procs, err \in BOOLEAN : startTripUpdate(p, err)
  \/ \E p \in Procs, t \in TripIds, err \in BOOLEAN : getTripById(p, t, err)
  \/ \E p \in Procs, u \in Users, t \in TripIds, err \in BOOLEAN : finishTrip(p, u, t, err)
  \/ \E p \in Procs, err \in BOOLEAN : finishTripUpdate(p, err)
  \/ \E p \in Procs, err \in BOOLEAN : finishTripDriver(p, err)
  \/ \E p \in Procs, u \in Users, t \in TripIds, err \in BOOLEAN : cancelTrip(p, u, t, err)
  \/ \E p \in Procs, err \in BOOLEAN : cancelTripUpdate(p, err)
  \/ \E p \in Procs, err \in BOOLEAN : cancelTripDriver(p, err)
  \/ \E p \in Procs, u \in DriverUsers, err \in BOOLEAN : registerDriver(p, u, err)
  \/ \E p \in Procs, err \in BOOLEAN : registerDriverInsert(p, err)

SpecNoStatus == Init /\ [][NextNoStatus]_vars

\* ================================================================== claims
Stored == 1..Len(trips)

\* The calls that have committed acceptTrip's update of trip t and not yet answered.
AcceptCommitted(t) ==
  {p \in Procs : calls[p].pc = "acc_driver" /\ calls[p].trip = t}

\* The trips user d holds as conductor_id in "asignado" or "en_progreso".
Held(d) ==
  {t \in Stored : trips[t].conductor_id = d
                  /\ trips[t].estado \in {"asignado", "en_progreso"}}

\* C1: of the acceptTrip calls racing on one trip at most one commits its update
\* and at most one answers 200; the trip then carries the winner as conductor_id
\* and is "asignado" unless a start or a cancel has moved it on since.
C1_AtMostOneAcceptWins ==
  \A t \in Stored :
    /\ Len(okAccepts[t]) + Cardinality(AcceptCommitted(t)) <= 1
    /\ \A w \in {okAccepts[t][i] : i \in 1..Len(okAccepts[t])}
            \cup {calls[p].user : p \in AcceptCommitted(t)} :
         /\ trips[t].conductor_id = w
         /\ \/ trips[t].estado = "asignado"
            \/ trips[t].started_at + trips[t].cancelled_at > 0

\* Two drivers raced on trip t: one was answered 200 while the other, which had
\* read the trip as "buscando", still has its update to issue.
C1_Witness ==
  \E t \in Stored, p \in Procs :
    /\ resp.op = "acceptTrip" /\ resp.status = 200 /\ resp.trip = t
    /\ calls[p].op = "acceptTrip" /\ calls[p].pc = "acc_update"
    /\ calls[p].trip = t /\ calls[p].user # resp.user

\* C2: no driver is the conductor_id of two trips in "asignado" or "en_progreso".
C2_NoDoubleBooking ==
  \A d \in Users : Cardinality(Held(d)) <= 1

\* C3: a trip whose stored estado is "finalizado" or "cancelado" keeps it for ever.
C3_TerminalIsFinal ==
  [][\A t \in Stored :
       trips[t].estado \in {"finalizado", "cancelado"}
         => trips'[t].estado = trips[t].estado]_vars

\* C4: a passenger owns at most one trip in "buscando", "asignado" or
\* "en_progreso", and a requestTrip answered 201 leaves its caller with exactly
\* the trip it created.
C4_OneActiveTripPerPassenger ==
  /\ \A u \in Users : Len(viajesActivos(u)) <= 1
  /\ (resp.op = "requestTrip" /\ resp.status = 201)
       => Len(viajesActivos(resp.user)) = 1

\* C5: a driver row is "ocupado" if and only if its user holds exactly one trip
\* in "asignado" or "en_progreso".
C5_BusyIffOneActiveTrip ==
  \A u \in Users : \A i \in 1..Len(drivers[u]) :
    (drivers[u][i] = "ocupado") <=> (Cardinality(Held(u)) = 1)

\* The edges of the transition table.
LegalEdge(from, to) ==
  \/ from = "buscando" /\ to = "asignado"
  \/ from = "asignado" /\ to = "en_progreso"
  \/ from = "en_progreso" /\ to = "finalizado"
  \/ from \in {"buscando", "asignado", "en_progreso"} /\ to = "cancelado"

\* C6: every write that changes a stored trip's estado is an edge of the
\* transition table from the estado stored at the moment of the write.
C6_OnlyLegalEdges ==
  [][\A t \in Stored :
       trips'[t].estado # trips[t].estado
         => LegalEdge(trips[t].estado, trips'[t].estado)]_vars

\* C7: a trip in "buscando" has no conductor_id; one in "asignado", "en_progreso"
\* or "finalizado" has one; a "cancelado" trip has one if and only if it was
\* accepted (accepted_at written) before it was cancelled.
C7_DriverIdMatchesState ==
  \A t \in Stored :
    /\ trips[t].estado = "buscando" => trips[t].conductor_id = Null
    /\ trips[t].estado \in {"asignado", "en_progreso", "finalizado"}
         => trips[t].conductor_id # Null
    /\ trips[t].estado = "cancelado"
         => (trips[t].conductor_id # Null <=> trips[t].accepted_at > 0)

\* A passenger's cancelTrip that read the trip as "buscando" has cancelled it
\* after an acceptTrip assigned it: the cancelled trip carries a conductor_id.
C7_Witness ==
  \E t \in Stored :
    /\ resp.op = "cancelTrip" /\ resp.status = 200 /\ resp.trip = t
    /\ resp.viaje.estado = "buscando"
    /\ trips[t].estado = "cancelado" /\ trips[t].conductor_id # Null

\* C8: an acceptTrip that read the trip as "buscando" and whose update then
\* matched no row (no store call failed) answers 400 and has written nothing.
C8_LostRaceIsInvalidState ==
  (/\ resp.op = "acceptTrip" /\ resp.viaje.estado = "buscando"
   /\ resp.nw = 0 /\ faults = 0)
    => resp.status = 400

\* The estados an operation may be applied from.
FromStates(op) ==
  IF op = "acceptTrip" THEN {"buscando"}
  ELSE IF op = "startTrip" THEN {"asignado"}
  ELSE IF op = "finishTrip" THEN {"en_progreso"}
  ELSE IF op = "cancelTrip" THEN {"buscando", "asignado", "en_progreso"}
  ELSE {}

TripOps == {"acceptTrip", "startTrip", "finishTrip", "cancelTrip"}

\* The call answered by the last step read its trip, in an estado its operation
\* may not be applied from.
OffTable ==
  /\ resp.op \in TripOps
  /\ resp.viaje.estado # "none"
  /\ resp.viaje.estado \notin FromStates(resp.op)

\* C9 as stated: every accept, start, finish or cancel of a trip whose estado is
\* not one the operation applies from answers 400 and writes nothing.
C9_OffTableIsInvalidState ==
  OffTable => resp.status = 400 /\ resp.nw = 0

\* C9 as amended: such a call writes nothing and answers 400, except that
\* startTrip and finishTrip answer 403 when the caller is not the trip's
\* conductor_id, which is every caller of a trip in "buscando".
C9_OffTableIsRejected ==
  OffTable =>
    /\ resp.nw = 0
    /\ resp.status =
         IF resp.op \in {"startTrip", "finishTrip"}
            /\ resp.viaje.conductor_id # resp.user
         THEN 403 ELSE 400

\* A conductor's startTrip of a trip in "buscando" was answered.
C9_Witness ==
  /\ OffTable
  /\ resp.op = "startTrip" /\ resp.viaje.estado = "buscando"
  /\ "conductor" \in UserRoles(resp.user)

\* C10: startTrip and finishTrip by a caller who is not the trip's conductor_id,
\* and cancelTrip of a trip in "en_progreso" by such a caller, answer 403 and
\* write nothing, whatever the caller's roles.
C10_NotTheDriverIsForbidden ==
  /\ (/\ resp.op \in {"startTrip", "finishTrip"}
      /\ "conductor" \notin UserRoles(resp.user))
       => resp.status = 403 /\ resp.nw = 0
  /\ (/\ resp.op \in {"startTrip", "finishTrip", "cancelTrip"}
      /\ resp.viaje.estado # "none"
      /\ resp.op = "cancelTrip" => resp.viaje.estado = "en_progreso"
      /\ resp.viaje.conductor_id # resp.user)
       => resp.status = 403 /\ resp.nw = 0

\* The trip's passenger, who is not its driver, called cancelTrip on it while it
\* was "en_progreso".
C10_Witness ==
  /\ resp.op = "cancelTrip" /\ resp.viaje.estado = "en_progreso"
  /\ resp.viaje.pasajero_id = resp.user
  /\ resp.viaje.conductor_id # resp.user
  /\ resp.status = 403

\* C11: a stored trip that is "cancelado" and was started (started_at written)
\* was cancelled by its driver: no passenger's cancelTrip lands on a trip that
\* a startTrip has moved to "en_progreso".
C11_StartedTripCancelledByDriverOnly ==
  \A t \in Stored :
    (trips[t].estado = "cancelado" /\ trips[t].started_at > 0)
      => trips[t].cancelled_by = "conductor"

\* ------------------------------------------------------- steps of a call
\* The step in which a request op by user u on trip t is received.
Began(op, u, t) ==
  /\ ncalls' = ncalls + 1
  /\ \/ resp'.op = op /\ resp'.user = u /\ resp'.trip = t
     \/ \E p \in Procs : /\ calls[p].pc = "idle" /\ calls'[p].op = op
                         /\ calls'[p].user = u /\ calls'[p].trip = t

\* The step the call in slot p takes from position pc.
Stepped(p, pc) == calls[p].pc = pc /\ calls'[p] # calls[p]

\* A step of a call of operation op.
Acting(op) ==
  \/ \E p \in Procs : calls'[p] # calls[p] /\ (calls[p].op = op \/ calls'[p].op = op)
  \/ ncalls' # ncalls /\ resp'.op = op

\* No store call fails in the step.
NoFault == faults' = faults

\* C12: acceptTrip checks, in this order and each against the tables as they are
\* when it is checked: the caller has a driver row (404), that row is
\* "disponible" (400), the caller holds no trip in "asignado" or "en_progreso"
\* (409), the trip exists (404), the trip is "buscando" (400). The first check
\* that fails decides the answer whatever the later ones would say, and only a
\* call that passed a check goes on to the next one.
C12_AcceptChecksInOrder ==
  [][/\ \A u \in Users, t \in TripIds :
          (Began("acceptTrip", u, t) /\ NoFault /\ "conductor" \in UserRoles(u)) =>
            /\ drivers[u] = <<>> => resp'.status = 404
            /\ (Len(drivers[u]) = 1 /\ drivers[u][1] # "disponible")
                 => resp'.status = 400
            /\ drivers[u] = <<"disponible">>
                 => \E p \in Procs : calls[p].pc = "idle" /\ calls'[p].pc = "acc_active"
     /\ \A p \in Procs :
          (Stepped(p, "acc_active") /\ NoFault) =>
            IF Held(calls[p].user) # {}
            THEN resp'.op = "acceptTrip" /\ resp'.status = 409
            ELSE calls'[p].pc = "acc_trip"
     /\ \A p \in Procs :
          (Stepped(p, "acc_trip") /\ NoFault) =>
            IF calls[p].trip \notin Stored
            THEN resp'.op = "acceptTrip" /\ resp'.status = 404
            ELSE IF trips[calls[p].trip].estado # "buscando"
            THEN resp'.op = "acceptTrip" /\ resp'.status = 400
            ELSE calls'[p].pc = "acc_update"]_vars

\* A driver whose row reads "disponible" while it holds a trip asked for a trip
\* that does not exist and was answered 409, not 404.
C12_Witness ==
  /\ resp.op = "acceptTrip" /\ resp.status = 409
  /\ drivers[resp.user] = <<"disponible">>
  /\ Held(resp.user) # {}
  /\ resp.trip \notin Stored

\* No driver row reads "disponible".
NoDriverAvailable ==
  \A u \in Users : \A i \in 1..Len(drivers[u]) : drivers[u][i] # "disponible"

\* C13: a requestTrip by a passenger with no active trip goes on to look for
\* drivers, and when no driver row is "disponible" at that moment (no row at
\* all included) it answers 503 and creates no trip.
C13_NoDriverIsServiceUnavailable ==
  [][/\ \A u \in Users :
          (/\ Began("requestTrip", u, 0) /\ NoFault
           /\ "pasajero" \in UserRoles(u)
           /\ \A t \in Stored : ~(trips[t].pasajero_id = u
                                  /\ trips[t].estado \in estadosActivos)) =>
            /\ \E p \in Procs : calls[p].pc = "idle" /\ calls'[p].pc = "req_drivers"
            /\ trips' = trips
     /\ \A p \in Procs :
          (Stepped(p, "req_drivers") /\ NoFault /\ NoDriverAvailable) =>
            /\ resp'.op = "requestTrip" /\ resp'.status = 503 /\ resp'.nw = 0
            /\ trips' = trips]_vars

\* A requestTrip was answered 503 while the drivers table was empty.
C13_Witness ==
  /\ resp.op = "requestTrip" /\ resp.status = 503
  /\ \A u \in Users : drivers[u] = <<>>
  /\ trips = <<>>

\* C14: no step of a requestTrip changes a driver row; the step that answers
\* 201 appends exactly one row, "buscando", with the caller as pasajero_id and
\* no conductor_id, and leaves the rows already stored as they were; no other
\* step of a requestTrip changes the trips table.
C14_RequestAddsOneSearchingTrip ==
  [][Acting("requestTrip") =>
       /\ drivers' = drivers
       /\ IF resp'.op = "requestTrip" /\ resp'.status = 201
          THEN /\ Len(trips') = Len(trips) + 1
               /\ SubSeq(trips', 1, Len(trips)) = trips
               /\ resp'.trip = Len(trips')
               /\ trips'[Len(trips')].estado = "buscando"
               /\ trips'[Len(trips')].pasajero_id = resp'.user
               /\ trips'[Len(trips')].conductor_id = Null
          ELSE trips' = trips]_vars

\* A requestTrip was answered 201 with a second trip while a first one was
\* stored and the driver that made the request possible is still "disponible".
C14_Witness ==
  /\ resp.op = "requestTrip" /\ resp.status = 201
  /\ Len(trips) = 2 /\ resp.trip = 2
  /\ trips[2].estado = "buscando" /\ trips[2].pasajero_id = resp.user
  /\ ~NoDriverAvailable

\* C15: a cancelTrip that finds the trip "finalizado" or "cancelado" answers 400
\* whoever calls (its passenger, its driver or neither) and changes no row.
C15_TerminalCancelIsInvalidState ==
  [][\A u \in Users, t \in Stored :
       (/\ Began("cancelTrip", u, t) /\ NoFault
        /\ trips[t].estado \in {"finalizado", "cancelado"}) =>
         /\ resp'.op = "cancelTrip" /\ resp'.status = 400 /\ resp'.nw = 0
         /\ trips' = trips /\ drivers' = drivers]_vars

\* A user who is neither the passenger nor the driver of a "finalizado" trip
\* called cancelTrip on it and was answered 400.
C15_Witness ==
  /\ resp.op = "cancelTrip" /\ resp.status = 400
  /\ resp.viaje.estado = "finalizado"
  /\ resp.viaje.pasajero_id # resp.user
  /\ resp.viaje.conductor_id # resp.user

\* C16: a cancelTrip by the trip's conductor_id, holding the role conductor,
\* that reads the trip as "asignado" or "en_progreso" and meets no store failure
\* answers 200 and has cancelled the trip, also when the caller is the trip's
\* pasajero_id as well.
C16_AssignedDriverCancels ==
  (/\ resp.op = "cancelTrip" /\ faults = 0
   /\ resp.viaje.estado \in {"asignado", "en_progreso"}
   /\ resp.viaje.conductor_id = resp.user
   /\ "conductor" \in UserRoles(resp.user))
    => resp.status = 200 /\ resp.nw >= 1

\* C17: a cancelTrip answered 200 for a trip that carries a conductor_id has,
\* unless a store call failed, written that driver's row, which reads
\* "disponible".
C17_CancelFreesAssignedDriver ==
  (/\ resp.op = "cancelTrip" /\ resp.status = 200
   /\ trips[resp.trip].conductor_id # Null
   /\ faults = 0)
    => /\ resp.nw = 2
       /\ \A i \in 1..Len(drivers[trips[resp.trip].conductor_id]) :
            drivers[trips[resp.trip].conductor_id][i] = "disponible"

\* C18: of the steps of a finishTrip, the one that commits the update turns the
\* target trip, "en_progreso" with the caller as conductor_id, into "finalizado"
\* with finished_at written and changes nothing else; the one that answers 200
\* sets the caller's driver rows to "disponible" and changes nothing else; every
\* other step changes no row and does not answer 200.
C18_FinishWritesTripAndDriver ==
  [][Acting("finishTrip") =>
       \/ \E p \in Procs :
            /\ Stepped(p, "fin_update") /\ calls'[p].pc = "fin_driver"
            /\ trips[calls[p].trip].estado = "en_progreso"
            /\ trips[calls[p].trip].conductor_id = calls[p].user
            /\ trips' = [trips EXCEPT ![calls[p].trip].estado = "finalizado",
                                      ![calls[p].trip].finished_at = @ + 1]
            /\ drivers' = drivers
       \/ \E p \in Procs :
            /\ Stepped(p, "fin_driver") /\ resp'.status = 200
            /\ trips' = trips
            /\ Len(drivers'[calls[p].user]) = Len(drivers[calls[p].user])
            /\ \A i \in 1..Len(drivers'[calls[p].user]) :
                 drivers'[calls[p].user][i] = "disponible"
            /\ \A u \in Users \ {calls[p].user} : drivers'[u] = drivers[u]
       \/ /\ resp'.status # 200
          /\ trips' = trips /\ drivers' = drivers]_vars

\* A finishTrip was answered 200 while a second trip was stored: its trip is
\* "finalizado" and its driver "disponible".
C18_Witness ==
  /\ resp.op = "finishTrip" /\ resp.status = 200 /\ resp.nw = 2
  /\ Len(trips) = 2
  /\ trips[resp.trip].estado = "finalizado" /\ trips[resp.trip].finished_at > 0
  /\ drivers[resp.user] = <<"disponible">>

\* C19: when the driver write of an acceptTrip fails after its trip update was
\* committed, the call answers 500 and changes no row: the trip keeps the caller
\* as conductor_id and is "asignado" unless a start or a cancel has moved it on
\* since, and the driver's row is as it was.
C19_AcceptDriverWriteFailure ==
  [][\A p \in Procs :
       (Stepped(p, "acc_driver") /\ ~NoFault) =>
         /\ resp'.op = "acceptTrip" /\ resp'.status = 500 /\ resp'.nw = 1
         /\ trips' = trips /\ drivers' = drivers
         /\ trips[calls[p].trip].conductor_id = calls[p].user
         /\ \/ trips[calls[p].trip].estado = "asignado"
            \/ trips[calls[p].trip].started_at + trips[calls[p].trip].cancelled_at > 0]_vars

\* An acceptTrip was answered 500 after its trip update: the trip is "asignado"
\* to the caller, whose driver row still reads "disponible".
C19_Witness ==
  /\ resp.op = "acceptTrip" /\ resp.status = 500 /\ resp.nw = 1
  /\ trips[resp.trip].estado = "asignado"
  /\ trips[resp.trip].conductor_id = resp.user
  /\ drivers[resp.user] = <<"disponible">>

\* C20: a finishTrip or a cancelTrip whose trip update was committed answers
\* 200 whether or not the driver write that follows it fails.
C20_DriverWriteFailureKeepsSuccess ==
  (resp.op \in {"finishTrip", "cancelTrip"} /\ resp.nw >= 1)
    => resp.status = 200

\* The operations of the trip lifecycle.
EngineOps == {"requestTrip", "acceptTrip", "startTrip", "finishTrip", "cancelTrip"}

\* C21: as long as no store call has failed, no requestTrip, acceptTrip,
\* startTrip, finishTrip or cancelTrip answers 500, an update that matches no
\* row and a trip or driver that does not exist included.
C21_InternalOnlyOnStoreFailure ==
  (resp.op \in EngineOps /\ faults = 0) => resp.status # 500

\* C22: accepted_at, started_at, finished_at and cancelled_at are each written
\* at most once per trip.
C22_TimestampsWrittenOnce ==
  \A t \in Stored :
    /\ trips[t].accepted_at <= 1
    /\ trips[t].started_at <= 1
    /\ trips[t].finished_at <= 1
    /\ trips[t].cancelled_at <= 1

\* C23: no step changes the pasajero_id of a stored trip, or its conductor_id
\* once it has one.
C23_DriverIdWriteOnce ==
  [][\A t \in Stored :
       /\ trips'[t].pasajero_id = trips[t].pasajero_id
       /\ trips[t].conductor_id # Null
            => trips'[t].conductor_id = trips[t].conductor_id]_vars

\* A second driver's acceptTrip read the trip as "buscando" and issued its update
\* after the first driver's had committed: the trip still carries the first.
C23_Witness ==
  /\ resp.op = "acceptTrip" /\ resp.viaje.estado = "buscando"
  /\ resp.nw = 0 /\ faults = 0 /\ resp.status = 500
  /\ trips[resp.trip].conductor_id # Null
  /\ trips[resp.trip].conductor_id # resp.user

\* The positions of a call before its trip update and before its driver write.
UpdatePcs == {"acc_update", "fin_update", "can_update"}

DriverWritePcs == {"acc_driver", "fin_driver", "can_driver"}

\* The estado an operation's trip update stores.
TargetEstado(op) ==
  IF op = "acceptTrip" THEN "asignado"
  ELSE IF op = "finishTrip" THEN "finalizado"
  ELSE "cancelado"

\* C24: an acceptTrip, finishTrip or cancelTrip changes a driver row only in its
\* driver-write step; it comes to that step only from its trip update and only
\* when that update, without failing, has stored the operation's estado on the
\* target trip; a trip update that fails or matches no row ends the call with
\* the drivers table untouched.
C24_DriverWriteAfterTripCommit ==
  [][/\ \A op \in {"acceptTrip", "finishTrip", "cancelTrip"} :
          (Acting(op) /\ ncalls' # ncalls) => drivers' = drivers
     /\ \A p \in Procs :
          (/\ calls[p].op \in {"acceptTrip", "finishTrip", "cancelTrip"}
           /\ calls'[p] # calls[p]) =>
            /\ drivers' # drivers => calls[p].pc \in DriverWritePcs
            /\ calls'[p].pc \in DriverWritePcs =>
                 /\ calls[p].pc \in UpdatePcs
                 /\ NoFault
                 /\ trips' # trips
                 /\ trips'[calls[p].trip].estado = TargetEstado(calls[p].op)
            /\ (calls[p].pc \in UpdatePcs /\ trips' = trips) =>
                 /\ calls'[p].pc = "idle"
                 /\ drivers' = drivers]_vars

\* The second of two finishTrip calls on one trip was answered after its update
\* matched no row; the driver, whose row the first call has yet to write, is
\* still "ocupado".
C24_Witness ==
  /\ resp.op = "finishTrip" /\ resp.viaje.estado = "en_progreso"
  /\ resp.nw = 0 /\ faults = 0 /\ resp.status = 500
  /\ drivers[resp.user] = <<"ocupado">>

\* C25: a step of a requestTrip, acceptTrip, startTrip, finishTrip or cancelTrip
\* whose store call fails, the call being a read or a write to the trips table,
\* ends the call with the answer 500.
C25_FailedReadOrTripWriteIsInternal ==
  [][(/\ ~NoFault
      /\ \E op \in EngineOps : Acting(op)
      /\ \A p \in Procs : calls'[p] # calls[p] => calls[p].pc \notin DriverWritePcs)
       => resp'.op \in EngineOps /\ resp'.status = 500]_vars

\* C26: a step of an acceptTrip, startTrip, finishTrip or cancelTrip changes at
\* most one trip row, the call's target, and at most one driver row, a row of the
\* user who is the target's conductor_id; a startTrip changes no driver row.
C26_OneTripRowOneDriverRow ==
  [][/\ \A op \in TripOps : (Acting(op) /\ ncalls' # ncalls) =>
          trips' = trips /\ drivers' = drivers
     /\ \A p \in Procs :
          (calls[p].op \in TripOps /\ calls'[p] # calls[p]) =>
            /\ Len(trips') = Len(trips)
            /\ \A t \in Stored : trips'[t] # trips[t] => t = calls[p].trip
            /\ \A u \in Users :
                 /\ Len(drivers'[u]) = Len(drivers[u])
                 /\ Cardinality({i \in 1..Len(drivers[u]) :
                                   drivers'[u][i] # drivers[u][i]}) <= 1
                 /\ drivers'[u] # drivers[u] =>
                      /\ calls[p].op # "startTrip"
                      /\ u = trips[calls[p].trip].conductor_id]_vars

\* C27: no user has more than one row in the drivers table.
C27_OneDriverRowPerUser ==
  \A u \in Users : Len(drivers[u]) <= 1

\* C28: a stored trip carries cancelled_at or cancelled_by only while it is
\* "cancelado", and cancelled_by is then "pasajero" or "conductor".
C28_CancelFieldsOnlyWhenCancelled ==
  \A t \in Stored :
    /\ (trips[t].cancelled_at > 0 \/ trips[t].cancelled_by # "none")
         => trips[t].estado = "cancelado"
    /\ trips[t].estado = "cancelado"
         => trips[t].cancelled_by \in {"pasajero", "conductor"}

\* The answers that reject a call.
Rejections == {400, 403, 404, 409, 503}

\* C29: the step in which a requestTrip, acceptTrip, startTrip, finishTrip or
\* cancelTrip answers 400, 403, 404, 409 or 503 changes no trip row and no
\* driver row, and the call has written none in its earlier steps.
C29_RejectedCallWritesNothing ==
  [][(resp'.op \in EngineOps /\ resp'.status \in Rejections) =>
       /\ trips' = trips /\ drivers' = drivers
       /\ resp'.nw = 0]_vars

\* An acceptTrip passed its two driver checks and was answered 400 at its third
\* store call, the read of a trip that is not "buscando".
C29_Witness ==
  /\ resp.op = "acceptTrip" /\ resp.status = 400 /\ resp.nw = 0
  /\ resp.viaje.estado \in {"asignado", "en_progreso", "finalizado", "cancelado"}

\* C30 (under SpecNoStatus): when no store call has failed and no call is in
\* flight, every row of a driver who holds no trip in "asignado" or
\* "en_progreso" reads "disponible".
C30_IdleDriversAreAvailable ==
  (faults = 0 /\ \A p \in Procs : calls[p].pc = "idle") =>
    \A u \in Users :
      Held(u) = {} => \A i \in 1..Len(drivers[u]) : drivers[u][i] = "disponible"

\* C31: an acceptTrip by a user without the role conductor answers 403 without a
\* store call; an acceptTrip goes past its first store call only for a caller
\* with that role whose single driver row reads "disponible" at that call; and
\* a trip's conductor_id is only ever set by the update of such an acceptTrip,
\* to its caller.
C31_DriverIdIsAvailableDriver ==
  [][/\ \A u \in Users, t \in TripIds :
          Began("acceptTrip", u, t) =>
            /\ "conductor" \notin UserRoles(u)
                 => resp'.op = "acceptTrip" /\ resp'.status = 403 /\ NoFault
            /\ (\E p \in Procs : calls'[p].pc = "acc_active" /\ calls[p].pc = "idle")
                 => "conductor" \in UserRoles(u) /\ drivers[u] = <<"disponible">>
     /\ \A t \in Stored :
          trips'[t].conductor_id # trips[t].conductor_id =>
            \E p \in Procs :
              /\ Stepped(p, "acc_update") /\ calls[p].trip = t
              /\ trips'[t].conductor_id = calls[p].user
              /\ "conductor" \in UserRoles(calls[p].user)
              /\ Len(drivers[calls[p].user]) >= 1]_vars

\* User 2, registered as a driver since the server started, accepted a trip: it
\* is the trip's conductor_id and its row now reads "ocupado".
C31_Witness ==
  /\ resp.op = "acceptTrip" /\ resp.status = 200 /\ resp.user = 2
  /\ trips[resp.trip].conductor_id = 2
  /\ drivers[2] = <<"ocupado">>

\* C32: no step of a registerDriver changes a driver row that exists or a trip
\* row, and a registerDriver received for a user who has a row answers 409 (500
\* if the read fails or finds several rows) without a write; no step of an
\* updateStatus changes a trip row or a driver row of another user.
C32_DriverEndpointsFrame ==
  [][/\ Acting("registerDriver") =>
          /\ trips' = trips
          /\ \A u \in Users : \A i \in 1..Len(drivers[u]) :
               /\ Len(drivers'[u]) >= i
               /\ drivers'[u][i] = drivers[u][i]
     /\ \A u \in Users :
          (Began("registerDriver", u, 0) /\ Len(drivers[u]) >= 1) =>
            /\ drivers' = drivers
            /\ resp'.op = "registerDriver"
            /\ resp'.status = IF NoFault /\ Len(drivers[u]) = 1 THEN 409 ELSE 500
     /\ Acting("updateStatus") =>
          /\ trips' = trips
          /\ \A u \in Users :
               drivers'[u] # drivers[u] =>
                 \/ resp'.op = "updateStatus" /\ resp'.user = u
                 \/ \E p \in Procs : calls'[p].op = "updateStatus" /\ calls'[p].user = u]_vars

\* A registerDriver by a driver whose row reads "ocupado" was answered 409 and
\* the row still reads "ocupado".
C32_Witness ==
  /\ resp.op = "registerDriver" /\ resp.status = 409
  /\ drivers[resp.user] = <<"ocupado">>

\* C33: a getTripById for an id that no stored trip has, no store call having
\* failed, answers 404.
C33_MissingTripIsNotFound ==
  (resp.op = "getTripById" /\ resp.trip \notin Stored /\ faults = 0)
    => resp.status = 404

====
